---- MODULE Spec2Model ----
(***************************************************************************)
(* Model of the pmppt-agent orchestration engine (src/src/agent.rs) and   *)
(* of its poller worker (src/src/agent/poller.rs).                        *)
(*                                                                         *)
(* One control thread runs Agent::serve: it receives requests, dispatches *)
(* them (handle_message) and finally runs the shutdown pass (stop).  Each *)
(* poller is a thread of its own, each spawned command an OS process.     *)
(* A panic of the control thread is the terminal position "panic".        *)
(***************************************************************************)
EXTENDS Integers, Sequences, FiniteSets, TLC

(* Bound of the model: the number of Poll/Spawn requests one run handles.  *)
(* Every id is allocated by one such request, so ids stay within 1..MaxReq *)
MaxReq == 3

Ids == 1..MaxReq

(* Bound of the model: how many entries of a log file the model keeps *)
MaxLog == 3

(* The poller whose log file the model follows: 001-poll.log *)
Logged == {1}

VARIABLES
    pc,        \* position of the control thread
    count,     \* Agent.count
    polls,     \* Agent.polls: the set of its keys
    procs,     \* Agent.procs: key -> Proc.wait4
    stopflag,  \* Poll.stop of the poller created under an id (Arc<AtomicBool>)
    thrd,      \* the poller thread created under an id: its position
    popen,     \* the OS process started under an id: its state
    sig,       \* whether the process of an id has been sent a terminate signal
    req,       \* the last result of recv_request
    id,        \* `let id` of the spawn routine in progress
    resp,      \* the response handed to send_response
    abnormal,  \* argument of stop
    iter,      \* stop: the ids the loop has still to visit
    i,         \* stop: the loop variable
    found,     \* stop: the scrutinee (procs.remove(&i), polls.remove(&i))
    pre,       \* history: counter and maps when the current request arrived
    reg,       \* history: what was registered under an id
    hist,      \* history: the requests handled so far and their outcome
    sent,      \* history: what send_response returned, until the next receive
    dead,      \* history: the call that made the poller thread of an id panic
    log,       \* the first MaxLog entries of the log file of the followed poller
    late,      \* history: records written to that log after its stop was stored
    requests,  \* LocalProtocol.requests, the last element next to be popped
    script     \* history: the script LocalProtocol was built from

vars == <<pc, count, polls, procs, stopflag, thrd, popen, sig, req, id, resp,
          abnormal, iter, i, found, pre, reg, hist, sent, dead, log, late,
          requests, script>>

RunningPcs == {"recv", "poll_ins", "fg", "bg_ins", "send"}
StopPcs == {"stop_next", "stop_rmproc", "stop_rmpoll", "stop_term",
            "stop_wait", "stop_flag", "stop_join"}

NoReq == [type |-> "-", arg |-> "-"]
NoResp == [type |-> "-", ok |-> FALSE, id |-> 0]
None == [some |-> FALSE, wait4 |-> FALSE]
Some(w) == [some |-> TRUE, wait4 |-> w]

(* HashMap::insert and HashMap::remove on a map held as a function *)
MapInsert(m, k, v) == [x \in DOMAIN m \cup {k} |-> IF x = k THEN v ELSE m[x]]
MapRemove(m, k) == [x \in DOMAIN m \ {k} |-> m[x]]

(* Agent::new *)
AgentInit ==
    /\ pc = "recv"
    /\ count = 0
    /\ polls = {}
    /\ procs = << >>
    /\ stopflag = [k \in Ids |-> FALSE]
    /\ thrd = [k \in Ids |-> "none"]
    /\ popen = [k \in Ids |-> "none"]
    /\ sig = [k \in Ids |-> FALSE]
    /\ req = NoReq
    /\ id = 0
    /\ resp = NoResp
    /\ abnormal = FALSE
    /\ iter = << >>
    /\ i = 0
    /\ found = <<None, FALSE>>
    /\ pre = [count |-> 0, polls |-> {}, procs |-> {}, started |-> {}]
    /\ reg = [k \in Ids |-> "none"]
    /\ hist = << >>
    /\ sent = "-"
    /\ dead = [k \in Ids |-> "-"]
    /\ log = << >>
    /\ late = 0

(* an agent on a transport that keeps no script *)
Init ==
    /\ AgentInit
    /\ requests = << >>
    /\ script = << >>

(***************************************************************************)
(* Pure pieces of the code                                                 *)
(***************************************************************************)

(* get_next_id that stops advancing once the first id is out *)
get_next_id_stuck(c) == IF c = 0 THEN 1 ELSE c

(* Agent::get_next_id: the new value of the counter, which is also the id *)
get_next_id(c) == c + 1

(* serve that takes a failed receive for a graceful stop *)
is_abnormal_abort_only(ev) == ev = "Abort"

(* Agent::serve: the value the loop breaks with for a terminal event *)
is_abnormal(ev) ==
    CASE ev = "None" -> TRUE
      [] ev = "Abort" -> TRUE
      [] ev = "Finish" -> FALSE

(* handle_message without the check of the search result *)
paths_is_empty_never(g) == FALSE

(* Agent::handle_message: `paths.is_empty()` of the resolved pattern *)
paths_is_empty(g) == g = "empty"

(* Agent::spawn_process: the wait4 argument each background mode passes *)
wait4_of(mode) == mode = "BackgroundWait"

(* stop that terminates every process, whatever its flag and the mode *)
need_terminate_always(w, abn) == TRUE

(* stop that looks at the flag of the process only *)
need_terminate_flag_only(w, abn) == ~w

(* Agent::stop: `!proc.wait4 || abnormal` *)
need_terminate(w, abn) == ~w \/ abn

(* the range `(1..self.count).rev()`, which leaves the last id out *)
rev_exclusive(c) == [k \in 1..(c - 1) |-> c - k]

(* the range of stop without the .rev() *)
fwd(c) == [k \in 1..c |-> k]

(* Agent::stop: `(1..=self.count).rev()` as the sequence of ids it yields *)
rev(c) == [k \in 1..c |-> c + 1 - k]

(* AtomicBool that starts set *)
new_stop_flag_set == TRUE

(* Agent::spawn_poller: `Arc::new(AtomicBool::default())` *)
new_stop_flag == FALSE

(* poller.rs: DEFAULT_SLEEP_TIME, in milliseconds *)
DEFAULT_SLEEP_TIME == 250

(* the source paths handed to a poller, as in the test multiple_file_poll *)
srcs == <<"src1", "src2">>

(* poller::create_header: the files and the period, one line *)
create_header(files, period) ==
    [kind |-> "header", files |-> files, period |-> period]

(* poll_with_config: what one tick puts in outbuffer: the timestamp line,  *)
(* the content of every source in list order, the delimiter                *)
build_record(files) ==
    [kind |-> "record", parts |-> <<"ts">> \o files \o <<"nl">>]

(* what a write_all of that buffer leaves behind when it fails half way *)
short_write(files) ==
    [kind |-> "record", parts |-> <<"ts">>]

Started == {k \in Ids : thrd[k] # "none"}

Snapshot == [count |-> count, polls |-> polls, procs |-> DOMAIN procs,
             started |-> Started]

(***************************************************************************)
(* Agent::serve                                                            *)
(***************************************************************************)

(* serve that receives again after a failed receive instead of breaking *)
RecvTerminalRetry(ev) ==
    /\ pc = "recv"
    /\ sent' = "-"
    /\ req' = [type |-> ev, arg |-> "-"]
    /\ IF ev = "None"
       THEN UNCHANGED <<abnormal, iter, pc>>
       ELSE /\ abnormal' = is_abnormal(ev)
            /\ iter' = rev(count)
            /\ pc' = "stop_next"
    /\ UNCHANGED <<count, polls, procs, stopflag, thrd, popen, sig, id, resp,
                   i, found, pre, reg, hist, dead, log, late>>

(* recv_request yields None, Abort or Finish: the loop breaks and stop     *)
(* starts with the count of that moment                                    *)
RecvTerminal(ev) ==
    /\ pc = "recv"
    /\ sent' = "-"
    /\ req' = [type |-> ev, arg |-> "-"]
    /\ abnormal' = is_abnormal(ev)
    /\ iter' = rev(count)
    /\ pc' = "stop_next"
    /\ UNCHANGED <<count, polls, procs, stopflag, thrd, popen, sig, id, resp,
                   i, found, pre, reg, hist, dead, log,
                   late>>

(* Poll { pattern }: g is what brace expansion and glob make of the pattern *)
RecvPoll(g) ==
    /\ pc = "recv"
    /\ sent' = "-"
    /\ Len(hist) < MaxReq
    /\ req' = [type |-> "Poll", arg |-> g]
    /\ pre' = Snapshot
    /\ IF g = "error"
       THEN /\ pc' = "panic"
            /\ UNCHANGED <<count, id, thrd, stopflag, resp>>
       ELSE IF ~paths_is_empty(g)
       THEN \* spawn_poller up to std::thread::spawn
            /\ id' = get_next_id(count)
            /\ count' = get_next_id(count)
            /\ stopflag' = [stopflag EXCEPT ![id'] = new_stop_flag]
            /\ thrd' = [thrd EXCEPT ![id'] = "create"]
            /\ pc' = "poll_ins"
            /\ UNCHANGED resp
       ELSE /\ resp' = [type |-> "Poll", ok |-> FALSE, id |-> 0]
            /\ id' = 0
            /\ pc' = "send"
            /\ UNCHANGED <<count, thrd, stopflag>>
    /\ UNCHANGED <<polls, procs, popen, sig, abnormal, iter, i, found, reg,
                   hist, dead, log,
                   late>>

(* spawn_poller that answers Ok(id) and drops the handle *)
PollInsertForgets ==
    /\ pc = "poll_ins"
    /\ resp' = [type |-> "Poll", ok |-> TRUE, id |-> id]
    /\ pc' = "send"
    /\ UNCHANGED <<count, polls, procs, stopflag, thrd, popen, sig, req, id,
                   abnormal, iter, i, found, pre, reg, hist, sent, dead, log,
                   late,
                   requests, script>>

(* spawn_poller from self.polls.insert on *)
PollInsert ==
    /\ pc = "poll_ins"
    /\ IF id \in polls
       THEN /\ pc' = "panic"
            /\ UNCHANGED <<polls, reg, resp>>
       ELSE /\ polls' = polls \cup {id}
            /\ reg' = [reg EXCEPT ![id] = "poll"]
            /\ resp' = [type |-> "Poll", ok |-> TRUE, id |-> id]
            /\ pc' = "send"
    /\ UNCHANGED <<count, procs, stopflag, thrd, popen, sig, req, id,
                   abnormal, iter, i, found, pre, hist, sent, dead, log,
                   late,
                   requests, script>>

(* spawn_process_foreground that keeps the command in the process map *)
RecvSpawnFgTracked(fileok, osok) ==
    /\ pc = "recv"
    /\ sent' = "-"
    /\ Len(hist) < MaxReq
    /\ req' = [type |-> "Spawn", arg |-> "Foreground"]
    /\ pre' = Snapshot
    /\ id' = get_next_id(count)
    /\ count' = get_next_id(count)
    /\ IF ~fileok
       THEN /\ pc' = "panic"
            /\ UNCHANGED <<popen, resp, procs>>
       ELSE IF ~osok
       THEN /\ resp' = [type |-> "SpawnFg", ok |-> FALSE, id |-> 0]
            /\ pc' = "send"
            /\ UNCHANGED <<popen, procs>>
       ELSE /\ popen' = [popen EXCEPT ![id'] = "running"]
            /\ procs' = MapInsert(procs, id', TRUE)
            /\ pc' = "fg"
            /\ UNCHANGED resp
    /\ UNCHANGED <<polls, stopflag, thrd, sig, abnormal, iter, i,
                   found, reg, hist, dead, log,
                   late>>

(* Spawn in Foreground mode: spawn_process_foreground up to the start of   *)
(* the command inside cmd.join()                                           *)
RecvSpawnFg(fileok, osok) ==
    /\ pc = "recv"
    /\ sent' = "-"
    /\ Len(hist) < MaxReq
    /\ req' = [type |-> "Spawn", arg |-> "Foreground"]
    /\ pre' = Snapshot
    /\ id' = get_next_id(count)
    /\ count' = get_next_id(count)
    /\ IF ~fileok
       THEN /\ pc' = "panic"
            /\ UNCHANGED <<popen, resp>>
       ELSE IF ~osok
       THEN /\ resp' = [type |-> "SpawnFg", ok |-> FALSE, id |-> 0]
            /\ pc' = "send"
            /\ UNCHANGED popen
       ELSE /\ popen' = [popen EXCEPT ![id'] = "running"]
            /\ pc' = "fg"
            /\ UNCHANGED resp
    /\ UNCHANGED <<polls, procs, stopflag, thrd, sig, abnormal, iter, i,
                   found, reg, hist, dead, log,
                   late>>

(* spawn_process_foreground that does not block until the command exits *)
FgJoinNoWait(res) ==
    /\ pc = "fg"
    /\ CASE res = "ok" ->
              /\ resp' = [type |-> "SpawnFg", ok |-> TRUE, id |-> 0]
              /\ pc' = "send"
         [] res = "waiterr" ->
              /\ resp' = [type |-> "SpawnFg", ok |-> FALSE, id |-> 0]
              /\ pc' = "send"
         [] res = "readerr" ->
              /\ pc' = "panic"
              /\ UNCHANGED resp
    /\ UNCHANGED <<count, polls, procs, stopflag, thrd, popen, sig, req, id,
                   abnormal, iter, i, found, pre, reg, hist, sent, dead, log,
                   late,
                   requests, script>>

(* spawn_process_foreground: cmd.join() returns and the logs are read back *)
FgJoin(res) ==
    /\ pc = "fg"
    /\ popen[id] = "exited"
    /\ popen' = [popen EXCEPT ![id] = "reaped"]
    /\ CASE res = "ok" ->
              /\ resp' = [type |-> "SpawnFg", ok |-> TRUE, id |-> 0]
              /\ pc' = "send"
         [] res = "waiterr" ->
              /\ resp' = [type |-> "SpawnFg", ok |-> FALSE, id |-> 0]
              /\ pc' = "send"
         [] res = "readerr" ->
              /\ pc' = "panic"
              /\ UNCHANGED resp
    /\ UNCHANGED <<count, polls, procs, stopflag, thrd, sig, req, id,
                   abnormal, iter, i, found, pre, reg, hist, sent, dead, log,
                   late,
                   requests, script>>

(* spawn_process_background that registers the handle before it looks at   *)
(* the result of cmd.popen()                                               *)
RecvSpawnBgRegisterFirst(mode, fileok, osok) ==
    /\ pc = "recv"
    /\ sent' = "-"
    /\ Len(hist) < MaxReq
    /\ req' = [type |-> "Spawn", arg |-> mode]
    /\ pre' = Snapshot
    /\ id' = get_next_id(count)
    /\ count' = get_next_id(count)
    /\ IF ~fileok
       THEN /\ pc' = "panic"
            /\ UNCHANGED <<popen, sig, resp, procs, reg>>
       ELSE IF ~osok
       THEN /\ procs' = MapInsert(procs, id', wait4_of(mode))
            /\ reg' = [reg EXCEPT ![id'] = mode]
            /\ resp' = [type |-> "SpawnBg", ok |-> FALSE, id |-> 0]
            /\ pc' = "send"
            /\ UNCHANGED <<popen, sig>>
       ELSE /\ popen' = [popen EXCEPT ![id'] = "running"]
            /\ sig' = [sig EXCEPT ![id'] = FALSE]
            /\ pc' = "bg_ins"
            /\ UNCHANGED <<resp, procs, reg>>
    /\ UNCHANGED <<polls, stopflag, thrd, abnormal, iter, i, found, hist, dead, log,
                   late>>

(* Spawn in a background mode: spawn_process_background up to cmd.popen() *)
RecvSpawnBg(mode, fileok, osok) ==
    /\ pc = "recv"
    /\ sent' = "-"
    /\ Len(hist) < MaxReq
    /\ req' = [type |-> "Spawn", arg |-> mode]
    /\ pre' = Snapshot
    /\ id' = get_next_id(count)
    /\ count' = get_next_id(count)
    /\ IF ~fileok
       THEN /\ pc' = "panic"
            /\ UNCHANGED <<popen, sig, resp>>
       ELSE IF ~osok
       THEN /\ resp' = [type |-> "SpawnBg", ok |-> FALSE, id |-> 0]
            /\ pc' = "send"
            /\ UNCHANGED <<popen, sig>>
       ELSE /\ popen' = [popen EXCEPT ![id'] = "running"]
            /\ sig' = [sig EXCEPT ![id'] = FALSE]
            /\ pc' = "bg_ins"
            /\ UNCHANGED resp
    /\ UNCHANGED <<polls, procs, stopflag, thrd, abnormal, iter, i, found,
                   reg, hist, dead, log,
                   late>>

(* spawn_process_background that answers with the foreground variant *)
BgInsertWrongVariant ==
    /\ pc = "bg_ins"
    /\ IF id \in DOMAIN procs
       THEN /\ pc' = "panic"
            /\ UNCHANGED <<procs, reg, resp>>
       ELSE /\ procs' = MapInsert(procs, id, wait4_of(req.arg))
            /\ reg' = [reg EXCEPT ![id] = req.arg]
            /\ resp' = [type |-> "SpawnFg", ok |-> TRUE, id |-> 0]
            /\ pc' = "send"
    /\ UNCHANGED <<count, polls, stopflag, thrd, popen, sig, req, id,
                   abnormal, iter, i, found, pre, hist, sent, dead, log,
                   late,
                   requests, script>>

(* spawn_process_background from self.procs.insert on *)
BgInsert ==
    /\ pc = "bg_ins"
    /\ IF id \in DOMAIN procs
       THEN /\ pc' = "panic"
            /\ UNCHANGED <<procs, reg, resp>>
       ELSE /\ procs' = MapInsert(procs, id, wait4_of(req.arg))
            /\ reg' = [reg EXCEPT ![id] = req.arg]
            /\ resp' = [type |-> "SpawnBg", ok |-> TRUE, id |-> id]
            /\ pc' = "send"
    /\ UNCHANGED <<count, polls, stopflag, thrd, popen, sig, req, id,
                   abnormal, iter, i, found, pre, hist, sent, dead, log,
                   late,
                   requests, script>>

(* handle_message that stops the agent when send_response fails *)
SendHaltsOnFailure(res) ==
    /\ pc = "send"
    /\ hist' = Append(hist, [type |-> resp.type, ok |-> resp.ok, id |-> id])
    /\ sent' = res
    /\ IF res = "None"
       THEN /\ abnormal' = TRUE
            /\ iter' = rev(count)
            /\ pc' = "stop_next"
       ELSE /\ pc' = "recv"
            /\ UNCHANGED <<abnormal, iter>>
    /\ UNCHANGED <<count, polls, procs, stopflag, thrd, popen, sig, req, id,
                   resp, i, found, pre, reg, dead, log, late>>

(* handle_message: self.proto.send_response(res); the result is dropped *)
Send(res) ==
    /\ pc = "send"
    /\ hist' = Append(hist, [type |-> resp.type, ok |-> resp.ok, id |-> id])
    /\ sent' = res
    /\ pc' = "recv"
    /\ UNCHANGED <<count, polls, procs, stopflag, thrd, popen, sig, req, id,
                   resp, abnormal, iter, i, found, pre, reg, dead, log,
                   late>>

(***************************************************************************)
(* Agent::stop                                                             *)
(***************************************************************************)

(* head of the for loop; after the last id the two sanity assertions *)
StopNext ==
    /\ pc = "stop_next"
    /\ IF iter # << >>
       THEN /\ i' = Head(iter)
            /\ iter' = Tail(iter)
            /\ pc' = "stop_rmproc"
       ELSE /\ pc' = IF polls = {} /\ DOMAIN procs = {} THEN "done" ELSE "panic"
            /\ UNCHANGED <<i, iter>>
    /\ UNCHANGED <<count, polls, procs, stopflag, thrd, popen, sig, req, id,
                   resp, abnormal, found, pre, reg, hist, sent, dead, log,
                   late,
                   requests, script>>

(* self.procs.remove(&i), the first component of the scrutinee *)
StopRemoveProc ==
    /\ pc = "stop_rmproc"
    /\ found' = <<IF i \in DOMAIN procs THEN Some(procs[i]) ELSE None, FALSE>>
    /\ procs' = MapRemove(procs, i)
    /\ pc' = "stop_rmpoll"
    /\ UNCHANGED <<count, polls, stopflag, thrd, popen, sig, req, id, resp,
                   abnormal, iter, i, pre, reg, hist, sent, dead, log,
                   late,
                   requests, script>>

(* self.polls.remove(&i), the second component, and the match on the pair *)
StopRemovePoll ==
    /\ pc = "stop_rmpoll"
    /\ found' = <<found[1], i \in polls>>
    /\ polls' = polls \ {i}
    /\ pc' = CASE found[1].some /\ i \notin polls -> "stop_term"
               [] ~found[1].some /\ i \in polls -> "stop_flag"
               [] ~found[1].some /\ i \notin polls -> "stop_next"
               [] OTHER -> "panic"
    /\ UNCHANGED <<count, procs, stopflag, thrd, popen, sig, req, id, resp,
                   abnormal, iter, i, pre, reg, hist, sent, dead, log,
                   late,
                   requests, script>>

(* stop whose terminate() reports success without a signal being sent *)
StopTerminateNoSignal(ok) ==
    /\ pc = "stop_term"
    /\ IF need_terminate(found[1].wait4, abnormal)
       THEN IF ok
            THEN /\ pc' = "stop_wait"
                 /\ UNCHANGED sig
            ELSE /\ pc' = "panic"
                 /\ UNCHANGED sig
       ELSE /\ ok
            /\ pc' = "stop_wait"
            /\ UNCHANGED sig
    /\ UNCHANGED <<count, polls, procs, stopflag, thrd, popen, req, id, resp,
                   abnormal, iter, i, found, pre, reg, hist, sent, dead, log,
                   late,
                   requests, script>>

(* (Some(proc), None): proc.popen.terminate() where the policy asks for it *)
StopTerminate(ok) ==
    /\ pc = "stop_term"
    /\ IF need_terminate(found[1].wait4, abnormal)
       THEN IF ok
            THEN /\ sig' = [sig EXCEPT ![i] = TRUE]
                 /\ pc' = "stop_wait"
            ELSE /\ pc' = "panic"
                 /\ UNCHANGED sig
       ELSE /\ ok
            /\ pc' = "stop_wait"
            /\ UNCHANGED sig
    /\ UNCHANGED <<count, polls, procs, stopflag, thrd, popen, req, id, resp,
                   abnormal, iter, i, found, pre, reg, hist, sent, dead, log,
                   late,
                   requests, script>>

(* stop that goes on to the next id without waiting for the process *)
StopWaitSkipped ==
    /\ pc = "stop_wait"
    /\ pc' = "stop_next"
    /\ UNCHANGED <<count, polls, procs, stopflag, thrd, popen, sig, req, id,
                   resp, abnormal, iter, i, found, pre, reg, hist, sent, dead, log,
                   late,
                   requests, script>>

(* (Some(proc), None): proc.popen.wait() returns once the process exited *)
StopWait ==
    /\ pc = "stop_wait"
    /\ popen[i] = "exited"
    /\ popen' = [popen EXCEPT ![i] = "reaped"]
    /\ pc' = "stop_next"
    /\ UNCHANGED <<count, polls, procs, stopflag, thrd, sig, req, id, resp,
                   abnormal, iter, i, found, pre, reg, hist, sent, dead, log,
                   late,
                   requests, script>>

(* proc.popen.wait() fails *)
StopWaitFail ==
    /\ pc = "stop_wait"
    /\ pc' = "panic"
    /\ UNCHANGED <<count, polls, procs, stopflag, thrd, popen, sig, req, id,
                   resp, abnormal, iter, i, found, pre, reg, hist, sent, dead, log,
                   late,
                   requests, script>>

(* (None, Some(poll)): poll.stop.store(true, Release) *)
StopFlag ==
    /\ pc = "stop_flag"
    /\ stopflag' = [stopflag EXCEPT ![i] = TRUE]
    /\ pc' = "stop_join"
    /\ UNCHANGED <<count, polls, procs, thrd, popen, sig, req, id, resp,
                   abnormal, iter, i, found, pre, reg, hist, sent, dead, log,
                   late,
                   requests, script>>

(* stop that goes on to the next id without joining the thread *)
StopJoinSkipped ==
    /\ pc = "stop_join"
    /\ pc' = "stop_next"
    /\ UNCHANGED <<count, polls, procs, stopflag, thrd, popen, sig, req, id,
                   resp, abnormal, iter, i, found, pre, reg, hist, sent, dead,
                   log, late,
                   requests, script>>

(* (None, Some(poll)): poll.thrd.join() returns once the thread is over;   *)
(* a thread that panicked makes join return Err                            *)
StopJoin ==
    /\ pc = "stop_join"
    /\ thrd[i] \in {"exited", "panicked"}
    /\ pc' = IF thrd[i] = "exited" THEN "stop_next" ELSE "panic"
    /\ UNCHANGED <<count, polls, procs, stopflag, thrd, popen, sig, req, id,
                   resp, abnormal, iter, i, found, pre, reg, hist, sent, dead, log,
                   late,
                   requests, script>>

(***************************************************************************)
(* poller::poll_with_config, the thread of the poller created under k      *)
(***************************************************************************)

WorkerStep(k, from, to) ==
    /\ pc # "panic"
    /\ thrd[k] = from
    /\ thrd' = [thrd EXCEPT ![k] = to]
    /\ UNCHANGED <<pc, count, polls, procs, stopflag, popen, sig, req, id,
                   resp, abnormal, iter, i, found, pre, reg, hist, sent,
                   requests, script>>

(* what one write to the log of k leaves in the followed log *)
LogAppend(k, e) ==
    IF k \in Logged /\ Len(log) < MaxLog THEN Append(log, e) ELSE log

(* poll_with_config that goes into its loop without store_header *)
WorkerCreateNoHeader(k, ok) ==
    /\ WorkerStep(k, "create", IF ok THEN "check" ELSE "panicked")
    /\ log' = IF k \in Logged THEN << >> ELSE log
    /\ dead' = IF ok THEN dead ELSE [dead EXCEPT ![k] = "io"]
    /\ UNCHANGED late

(* File::create(dest), which empties the file, and store_header *)
WorkerCreate(k, ok) ==
    /\ WorkerStep(k, "create", IF ok THEN "check" ELSE "panicked")
    /\ log' = IF k \in Logged
              THEN IF ok THEN <<create_header(srcs, DEFAULT_SLEEP_TIME)>>
                         ELSE << >>
              ELSE log
    /\ dead' = IF ok THEN dead ELSE [dead EXCEPT ![k] = "io"]
    /\ UNCHANGED late

(* a loop that samples once more before it looks at the stop flag *)
WorkerCheckLate(k) ==
    /\ WorkerStep(k, "check",
                  IF stopflag[k] /\ late > 1 THEN "flush" ELSE "read")
    /\ UNCHANGED <<dead, log, late>>

(* `while !stop.load(Ordering::Acquire)` *)
WorkerCheck(k) ==
    /\ WorkerStep(k, "check", IF stopflag[k] THEN "flush" ELSE "read")
    /\ UNCHANGED <<dead, log, late>>

(* the timestamp and the loop over srcs that reads every file *)
WorkerRead(k, ok) ==
    /\ WorkerStep(k, "read", IF ok THEN "write" ELSE "panicked")
    /\ dead' = IF ok THEN dead ELSE [dead EXCEPT ![k] = "read"]
    /\ UNCHANGED <<log, late>>

(* output.write_all(outbuffer) of the whole record, then the sleep of one *)
(* period, after which the thread is back at the loop condition; a        *)
(* write_all that fails may have written a part of the buffer             *)
WorkerWrite(k, res) ==
    /\ WorkerStep(k, "write", IF res = "ok" THEN "check" ELSE "panicked")
    /\ log' = CASE res = "ok" -> LogAppend(k, build_record(srcs))
                [] res = "short" -> LogAppend(k, short_write(srcs))
                [] res = "err" -> log
    /\ late' = IF res = "ok" /\ k \in Logged /\ stopflag[k] /\ late < 2
               THEN late + 1 ELSE late
    /\ dead' = IF res = "ok" THEN dead ELSE [dead EXCEPT ![k] = "io"]

(* output.flush() after the loop, then the thread ends *)
WorkerFlush(k, ok) ==
    /\ WorkerStep(k, "flush", IF ok THEN "exited" ELSE "panicked")
    /\ dead' = IF ok THEN dead ELSE [dead EXCEPT ![k] = "io"]
    /\ UNCHANGED <<log, late>>

(***************************************************************************)
(* The OS process started under k ends                                     *)
(***************************************************************************)
ProcExit(k) ==
    /\ popen[k] = "running"
    /\ popen' = [popen EXCEPT ![k] = "exited"]
    /\ UNCHANGED <<pc, count, polls, procs, stopflag, thrd, sig, req, id,
                   resp, abnormal, iter, i, found, pre, reg, hist, sent, dead, log,
                   late,
                   requests, script>>

Next ==
    \/ \E ev \in {"None", "Abort", "Finish"} :
            RecvTerminal(ev) /\ UNCHANGED <<requests, script>>
    \/ \E g \in {"files", "empty", "error"} :
            RecvPoll(g) /\ UNCHANGED <<requests, script>>
    \/ PollInsert
    \/ \E fileok \in BOOLEAN, osok \in BOOLEAN :
            RecvSpawnFg(fileok, osok) /\ UNCHANGED <<requests, script>>
    \/ \E res \in {"ok", "waiterr", "readerr"} : FgJoin(res)
    \/ \E mode \in {"BackgroundWait", "BackgroundKill"},
          fileok \in BOOLEAN, osok \in BOOLEAN :
            RecvSpawnBg(mode, fileok, osok) /\ UNCHANGED <<requests, script>>
    \/ BgInsert
    \/ \E res \in {"Some", "None"} : Send(res) /\ UNCHANGED <<requests, script>>
    \/ StopNext
    \/ StopRemoveProc
    \/ StopRemovePoll
    \/ \E ok \in BOOLEAN : StopTerminate(ok)
    \/ StopWait
    \/ StopWaitFail
    \/ StopFlag
    \/ StopJoin
    \/ \E k \in Ids, ok \in BOOLEAN : WorkerCreate(k, ok)
    \/ \E k \in Ids : WorkerCheck(k)
    \/ \E k \in Ids, ok \in BOOLEAN : WorkerRead(k, ok)
    \/ \E k \in Ids, res \in {"ok", "short", "err"} : WorkerWrite(k, res)
    \/ \E k \in Ids, ok \in BOOLEAN : WorkerFlush(k, ok)
    \/ \E k \in Ids : ProcExit(k)

Spec == Init /\ [][Next]_vars

(* one step of the thread that runs poll_with_config for k *)
Worker(k) ==
    \/ \E ok \in BOOLEAN : WorkerCreate(k, ok)
    \/ WorkerCheck(k)
    \/ \E ok \in BOOLEAN : WorkerRead(k, ok)
    \/ \E res \in {"ok", "short", "err"} : WorkerWrite(k, res)
    \/ \E ok \in BOOLEAN : WorkerFlush(k, ok)

(* a spawned thread that can run does run: its reads, its write and its    *)
(* sleep of DEFAULT_SLEEP_TIME all end; join returns once the thread is    *)
(* over                                                                    *)
FairSpec ==
    /\ Spec
    /\ \A k \in Ids : WF_vars(Worker(k))
    /\ WF_vars(StopJoin)

(* the steps of Agent::stop that do not block *)
StopStep ==
    \/ StopNext
    \/ StopRemoveProc
    \/ StopRemovePoll
    \/ \E ok \in BOOLEAN : StopTerminate(ok)
    \/ StopFlag

(* FairSpec, and the control thread goes on through stop, wait() returns   *)
(* once the process has exited, and a process that was sent the terminate  *)
(* signal exits                                                            *)
StopFairSpec ==
    /\ FairSpec
    /\ WF_vars(StopStep)
    /\ WF_vars(StopWait)
    /\ \A k \in Ids : WF_vars(sig[k] /\ ProcExit(k))

(***************************************************************************)
(* protocol_impl::LocalProtocol, the transport that replays a JSON script  *)
(***************************************************************************)

(* Bound of the model: the number of entries of the script *)
MaxScript == 3

(* ExecMode as the script gives it; "none" is an entry without a mode *)
ExecModes == {"none", "fg", "bgwait", "bgkill"}

(* LocalRequest *)
LocalRequests ==
    [type : {"Poll", "Abort", "Pause", "Sleep"}, mode : {"-"}]
        \cup [type : {"Spawn"}, mode : ExecModes]

local_mode_to_agent(mode) ==
    CASE mode = "none" -> "Foreground"
      [] mode = "fg" -> "Foreground"
      [] mode = "bgwait" -> "BackgroundWait"
      [] mode = "bgkill" -> "BackgroundKill"

(* Vec::reverse *)
reverse(q) == [n \in 1..Len(q) |-> q[Len(q) + 1 - n]]

(* from_json that leaves the vector as parsed *)
from_json_unreversed(parsed) == parsed

(* LocalProtocol::from_json: the parsed script, reversed so that pop       *)
(* yields its entries in order                                             *)
from_json(parsed) == reverse(parsed)

Scripts == UNION {[1..n -> LocalRequests] : n \in 0..MaxScript}

(* Vec::pop: the element it yields and what it leaves *)
Top(q) == q[Len(q)]
Pop(q) == SubSeq(q, 1, Len(q) - 1)

(* Vec::push of the Abort that send_response emulates *)
PushAbort(q) == Append(q, [type |-> "Abort", mode |-> "-"])

LocalInit ==
    /\ AgentInit
    /\ script \in Scripts
    /\ requests = from_json(script)

(* recv_request pops a Sleep: thread::sleep and `continue`;                *)
(* Duration::from_secs_f64 panics on a negative or non-finite time         *)
LocalSleep(ok) ==
    /\ pc = "recv"
    /\ requests # << >>
    /\ Top(requests).type = "Sleep"
    /\ requests' = Pop(requests)
    /\ UNCHANGED script
    /\ pc' = IF ok THEN "recv" ELSE "panic"
    /\ UNCHANGED <<count, polls, procs, stopflag, thrd, popen, sig, req, id,
                   resp, abnormal, iter, i, found, pre, reg, hist, sent, dead,
                   log, late>>

(* recv_request pops a Pause: the prompt, then one byte of stdin is read,  *)
(* with expect("stdin is broken")                                          *)
LocalPause(ok) ==
    /\ pc = "recv"
    /\ requests # << >>
    /\ Top(requests).type = "Pause"
    /\ requests' = Pop(requests)
    /\ UNCHANGED script
    /\ pc' = IF ok THEN "recv" ELSE "panic"
    /\ UNCHANGED <<count, polls, procs, stopflag, thrd, popen, sig, req, id,
                   resp, abnormal, iter, i, found, pre, reg, hist, sent, dead,
                   log, late>>

(* recv_request pops a Poll and serve hands it to handle_message *)
LocalRecvPoll(g) ==
    /\ requests # << >>
    /\ Top(requests).type = "Poll"
    /\ requests' = Pop(requests)
    /\ UNCHANGED script
    /\ RecvPoll(g)

(* recv_request pops a Spawn whose mode maps to Foreground *)
LocalRecvSpawnFg(fileok, osok) ==
    /\ requests # << >>
    /\ Top(requests).type = "Spawn"
    /\ local_mode_to_agent(Top(requests).mode) = "Foreground"
    /\ requests' = Pop(requests)
    /\ UNCHANGED script
    /\ RecvSpawnFg(fileok, osok)

(* recv_request pops a Spawn whose mode maps to a background mode *)
LocalRecvSpawnBg(fileok, osok) ==
    /\ requests # << >>
    /\ Top(requests).type = "Spawn"
    /\ local_mode_to_agent(Top(requests).mode) # "Foreground"
    /\ requests' = Pop(requests)
    /\ UNCHANGED script
    /\ RecvSpawnBg(local_mode_to_agent(Top(requests).mode), fileok, osok)

(* recv_request pops an Abort *)
LocalRecvAbort ==
    /\ requests # << >>
    /\ Top(requests).type = "Abort"
    /\ requests' = Pop(requests)
    /\ UNCHANGED script
    /\ RecvTerminal("Abort")

(* recv_request finds the script exhausted: `None => break Finish` *)
LocalRecvFinish ==
    /\ requests = << >>
    /\ UNCHANGED <<requests, script>>
    /\ RecvTerminal("Finish")

(* send_response: an Err of any variant pushes an Abort; always Some(()) *)
LocalSend ==
    /\ pc = "send"
    /\ requests' = IF resp.ok THEN requests ELSE PushAbort(requests)
    /\ UNCHANGED script
    /\ Send("Some")

LocalNext ==
    \/ \E ok \in BOOLEAN : LocalSleep(ok)
    \/ \E ok \in BOOLEAN : LocalPause(ok)
    \/ \E g \in {"files", "empty", "error"} : LocalRecvPoll(g)
    \/ \E fileok \in BOOLEAN, osok \in BOOLEAN : LocalRecvSpawnFg(fileok, osok)
    \/ \E fileok \in BOOLEAN, osok \in BOOLEAN : LocalRecvSpawnBg(fileok, osok)
    \/ LocalRecvAbort
    \/ LocalRecvFinish
    \/ LocalSend
    \/ PollInsert
    \/ \E res \in {"ok", "waiterr", "readerr"} : FgJoin(res)
    \/ BgInsert
    \/ StopNext
    \/ StopRemoveProc
    \/ StopRemovePoll
    \/ \E ok \in BOOLEAN : StopTerminate(ok)
    \/ StopWait
    \/ StopWaitFail
    \/ StopFlag
    \/ StopJoin
    \/ \E k \in Ids, ok \in BOOLEAN : WorkerCreate(k, ok)
    \/ \E k \in Ids : WorkerCheck(k)
    \/ \E k \in Ids, ok \in BOOLEAN : WorkerRead(k, ok)
    \/ \E k \in Ids, res \in {"ok", "short", "err"} : WorkerWrite(k, res)
    \/ \E k \in Ids, ok \in BOOLEAN : WorkerFlush(k, ok)
    \/ \E k \in Ids : ProcExit(k)

(* the agent of main.rs in local mode: Agent::new(LocalProtocol).serve() *)
LocalSpec == LocalInit /\ [][LocalNext]_vars

TypeOK ==
    /\ pc \in RunningPcs \cup StopPcs \cup {"done", "panic"}
    /\ count \in 0..MaxReq
    /\ polls \subseteq Ids
    /\ DOMAIN procs \subseteq Ids

(***************************************************************************)
(* Properties                                                              *)
(***************************************************************************)

BgModes == {"BackgroundWait", "BackgroundKill"}
Terminal == {"None", "Abort", "Finish"}
Over == {"exited", "panicked"}

(* the ids of the requests of h that succeeded, in request order *)
RECURSIVE OkIds(_)
OkIds(h) ==
    IF h = << >> THEN << >>
    ELSE IF Head(h).ok THEN <<Head(h).id>> \o OkIds(Tail(h))
    ELSE OkIds(Tail(h))

(* the OS refused to start the command of the Spawn request in progress *)
SpawnFailed == req.type = "Spawn" /\ id \in Ids /\ popen[id] = "none"

(* C1: in every reachable state, the intermediate states of the shutdown   *)
(* pass included, no id is a key of both the poller map and the process map *)
Exclusivity == polls \cap DOMAIN procs = {}

(* C1 witness: both maps are populated and the pass stands between its two *)
(* removals                                                                *)
ExclusivityWitness ==
    /\ pc = "stop_rmpoll"
    /\ polls # {}
    /\ DOMAIN procs # {}

(* C2: the requests that succeeded received, in request order, exactly the *)
(* ids 1, 2, 3, ... with no gap and no reuse                               *)
IdsDense ==
    \A k \in 1..Len(OkIds(hist)) : OkIds(hist)[k] = k

(* C3: when stop has returned, both maps are empty, every background       *)
(* process that was registered has been reaped and every poller thread     *)
(* that was registered is over                                             *)
ShutdownComplete ==
    pc = "done" =>
        /\ polls = {}
        /\ DOMAIN procs = {}
        /\ \A k \in Ids :
            /\ reg[k] \in BgModes => popen[k] = "reaped"
            /\ reg[k] = "poll" => thrd[k] \in Over

(* C3 witness: stop returned after it tore down a poller and a process *)
ShutdownCompleteWitness ==
    /\ pc = "done"
    /\ \E k \in Ids : reg[k] = "poll"
    /\ \E k \in Ids : reg[k] \in BgModes

(* C4: the pass visits count, count - 1, ..., 1, one id at a time, and a   *)
(* resource receives its stop flag or its terminate signal only when every *)
(* resource of a higher id has been reaped or joined                       *)
ReverseOrder ==
    /\ pc \in StopPcs =>
        /\ iter = rev(Len(iter))
        /\ \/ i = Len(iter) + 1 /\ i <= count
           \/ i = 0 /\ pc = "stop_next" /\ Len(iter) = count
    /\ pc = "done" => iter = << >> /\ i = IF count = 0 THEN 0 ELSE 1
    /\ \A a \in Ids, b \in Ids :
        (a > b /\ reg[a] # "none" /\ (stopflag[b] \/ sig[b])) =>
            /\ a \notin polls \cup DOMAIN procs
            /\ reg[a] = "poll" => thrd[a] \in Over
            /\ reg[a] \in BgModes => popen[a] = "reaped"

(* C4 witness: three live resources, and the pass has come down to id 1 *)
ReverseOrderWitness ==
    /\ \A k \in 1..3 : reg[k] # "none"
    /\ stopflag[1] \/ sig[1]

(* C5: in a shutdown started by Finish a BackgroundWait process is never   *)
(* sent a terminate signal, and a BackgroundKill process has been sent one *)
(* by the time stop waits for it                                           *)
GracefulWait ==
    ~abnormal =>
        \A k \in Ids :
            /\ reg[k] = "BackgroundWait" => ~sig[k]
            /\ (reg[k] = "BackgroundKill"
                /\ (popen[k] = "reaped" \/ (pc = "stop_wait" /\ i = k)))
               => sig[k]

(* C5 witness: a graceful stop returned after a process of each mode *)
GracefulWaitWitness ==
    /\ pc = "done"
    /\ req.type = "Finish"
    /\ \E k \in Ids : reg[k] = "BackgroundWait" /\ popen[k] = "reaped"
    /\ \E k \in Ids : reg[k] = "BackgroundKill" /\ sig[k]

(* C6: in an abnormal shutdown every background process, BackgroundWait    *)
(* included, has been sent a terminate signal by the time stop waits for it *)
AbnormalOverride ==
    abnormal =>
        \A k \in Ids :
            (reg[k] \in BgModes
             /\ (popen[k] = "reaped" \/ (pc = "stop_wait" /\ i = k)))
            => sig[k]

(* C6 witness: after a failed receive stop waits for a BackgroundWait      *)
(* process that still runs                                                 *)
AbnormalOverrideWitness ==
    /\ pc = "stop_wait"
    /\ req.type = "None"
    /\ reg[i] = "BackgroundWait"
    /\ popen[i] = "running"
    /\ sig[i]

(* C7: the control loop leaves Running for the shutdown pass exactly when  *)
(* a receive yields None, Abort or Finish; None and Abort make the         *)
(* shutdown abnormal, Finish makes it graceful                             *)
StopModeSelection ==
    [][/\ (pc \in RunningPcs /\ pc' \in StopPcs \cup {"done"}) =>
            /\ pc = "recv"
            /\ pc' = "stop_next"
            /\ req'.type \in Terminal
            /\ abnormal' = (req'.type \in {"None", "Abort"})
       /\ (pc = "recv" /\ pc' # "recv" /\ req'.type \in Terminal) =>
            pc' = "stop_next"]_vars

(* C7 witness: a failed receive started an abnormal shutdown of an agent   *)
(* that holds resources                                                    *)
StopModeSelectionWitness ==
    /\ pc \in StopPcs
    /\ req.type = "None"
    /\ abnormal
    /\ count > 0

(* C8: a Poll whose pattern resolves to no file gets a Poll error          *)
(* response; the counter, the set of started workers and both maps are as  *)
(* they were when the request arrived, and the agent stays Running         *)
EmptyMatchError ==
    [][(pc = "send" /\ req.type = "Poll" /\ req.arg = "empty") =>
            /\ resp = [type |-> "Poll", ok |-> FALSE, id |-> 0]
            /\ count = pre.count
            /\ Started = pre.started
            /\ polls = pre.polls
            /\ DOMAIN procs = pre.procs
            /\ pc' \in {"send", "recv"}]_vars

(* C8 witness: the error response of an empty Poll that follows a          *)
(* successful one                                                          *)
EmptyMatchErrorWitness ==
    /\ pc = "send"
    /\ req = [type |-> "Poll", arg |-> "empty"]
    /\ ~resp.ok
    /\ count > 0
    /\ polls # {}

(* C9: a Spawn whose OS spawn call failed leaves the id counter where it   *)
(* was when the request arrived                                            *)
AllocOnlyOnSuccess ==
    (pc = "send" /\ SpawnFailed) => count = pre.count

(* C10: when the OS cannot start the command of a background Spawn, the    *)
(* response is a SpawnBg error, both maps are as they were when the        *)
(* request arrived, and the agent stays Running and goes on to receive     *)
BgSpawnFailure ==
    [][(pc = "send" /\ SpawnFailed /\ req.arg \in BgModes) =>
            /\ resp = [type |-> "SpawnBg", ok |-> FALSE, id |-> 0]
            /\ DOMAIN procs = pre.procs
            /\ polls = pre.polls
            /\ id \notin polls \cup DOMAIN procs
            /\ pc' \in {"send", "recv"}]_vars

(* C10 witness: a background Spawn failed while a process and a poller are *)
(* tracked                                                                 *)
BgSpawnFailureWitness ==
    /\ pc = "send"
    /\ SpawnFailed
    /\ req.arg \in BgModes
    /\ polls # {}
    /\ DOMAIN procs # {}

(* C11: a poller thread that dies of a failed read of a source leaves the  *)
(* control thread where it is, and the shutdown pass that later joins it   *)
(* goes on to the ids below it instead of aborting                         *)
ReadFailureIsolated ==
    [][/\ (\E k \in Ids : thrd[k] = "read" /\ thrd'[k] = "panicked") =>
            pc' = pc
       /\ (pc = "stop_join" /\ thrd[i] = "panicked" /\ dead[i] = "read") =>
            pc' # "panic"]_vars

(* C12: a send_response that fails is not repeated and starts no shutdown: *)
(* the request is over, the counter and both maps are as before the send,  *)
(* the handle just registered is still in its map, and the agent receives  *)
SendFailureIgnored ==
    [][(pc = "send" /\ sent' = "None") =>
            /\ pc' = "recv"
            /\ hist' = Append(hist, [type |-> resp.type, ok |-> resp.ok,
                                     id |-> id])
            /\ count' = count
            /\ polls' = polls
            /\ procs' = procs
            /\ (resp.ok /\ resp.type = "Poll") => resp.id \in polls'
            /\ (resp.ok /\ resp.type = "SpawnBg") => resp.id \in DOMAIN procs'
      ]_vars

(* C12 witness: the send of Poll(Ok(id)) failed, the poller is still       *)
(* tracked and the agent is back at its receive                            *)
SendFailureIgnoredWitness ==
    /\ pc = "recv"
    /\ sent = "None"
    /\ resp.type = "Poll"
    /\ resp.ok
    /\ resp.id \in polls

(* C13: while the command of a foreground Spawn runs, the control thread   *)
(* stays in cmd.join(): it receives nothing, sends nothing and starts no   *)
(* shutdown; a SpawnFg response exists only once the command is reaped     *)
ForegroundSerialized ==
    [][/\ (pc = "fg" /\ popen[id] = "running") =>
            /\ pc' = "fg"
            /\ req' = req
            /\ hist' = hist
            /\ sent' = sent
            /\ resp' = resp
            /\ abnormal' = abnormal
            /\ iter' = iter
       /\ (pc = "send" /\ resp.type = "SpawnFg") =>
            popen[id] \in {"none", "reaped"}
       /\ (pc = "send" /\ resp.type = "SpawnFg" /\ resp.ok) =>
            popen[id] = "reaped"]_vars

(* C13 witness: the response of a foreground Spawn is ready after its      *)
(* command was reaped, while a poller runs                                 *)
ForegroundSerializedWitness ==
    /\ pc = "send"
    /\ resp.type = "SpawnFg"
    /\ resp.ok
    /\ popen[id] = "reaped"
    /\ polls # {}

(* C14: only Poll and Spawn are dispatched; once receive has yielded       *)
(* Finish, Abort or None the agent is out of Running for good: it receives *)
(* nothing more, sends nothing more and creates no thread and no process   *)
TerminalEndsProcessing ==
    [][/\ (pc \in RunningPcs \ {"recv"}) => req.type \in {"Poll", "Spawn"}
       /\ req.type \in Terminal =>
            /\ pc \notin RunningPcs
            /\ pc' \notin RunningPcs
            /\ req' = req
            /\ hist' = hist
            /\ sent' = sent
            /\ resp' = resp
            /\ count' = count
            /\ polls' \subseteq polls
            /\ DOMAIN procs' \subseteq DOMAIN procs
            /\ \A k \in Ids :
                /\ thrd[k] = "none" => thrd'[k] = "none"
                /\ popen[k] = "none" => popen'[k] = "none"]_vars

(* C14 witness: Abort arrived after a request was served and before the    *)
(* agent had to stop serving                                               *)
TerminalEndsProcessingWitness ==
    /\ pc \in StopPcs
    /\ req.type = "Abort"
    /\ Len(hist) > 0
    /\ Len(hist) < MaxReq
    /\ polls # {}

(* the id k was used by a foreground Spawn *)
IsFg(k) ==
    \/ req.arg = "Foreground" /\ id = k
    \/ \E n \in 1..Len(hist) : hist[n].type = "SpawnFg" /\ hist[n].id = k

(* the ids a sequence holds *)
Range(q) == {q[n] : n \in 1..Len(q)}

(* the shutdown pass is through with id k *)
Handled(k) ==
    /\ pc \in StopPcs \cup {"done"}
    /\ k \in 1..count
    /\ k \notin Range(iter)
    /\ k # i \/ pc \in {"stop_next", "done"}

(* C15 as stated: a poller thread has created its log and written the      *)
(* header, and a background process has come to its end, only after the    *)
(* handle was registered under its id                                      *)
RegisteredBeforeEffect ==
    /\ \A k \in Ids :
        thrd[k] \in {"check", "read", "write", "flush", "exited"} => reg[k] = "poll"
    /\ pc = "bg_ins" => popen[id] # "exited"

(* C15 as amended: the id is allocated before the thread or the process    *)
(* starts, and a started thread or background process is untracked only    *)
(* inside its own spawn routine, between the start and the insert: it is   *)
(* registered before the response, the next receive and any shutdown       *)
RegisteredBeforeResponse ==
    \A k \in Ids :
        /\ thrd[k] # "none" =>
            /\ k <= count
            /\ reg[k] = "poll" \/ (pc = "poll_ins" /\ id = k)
        /\ popen[k] # "none" =>
            /\ k <= count
            /\ \/ reg[k] \in BgModes
               \/ pc = "bg_ins" /\ id = k
               \/ IsFg(k)

(* C15 witness: the followed log holds the header and a record while the   *)
(* poller is not yet in the map                                            *)
RegisteredBeforeResponseWitness ==
    /\ pc = "poll_ins"
    /\ id \in Logged
    /\ id \notin polls
    /\ Len(log) >= 2

(* C16: once the pass is through with an id, the thread or process of that *)
(* id is over and does nothing more: no step changes its position, its     *)
(* state or its log, during the rest of the pass and after stop returned   *)
HappensAfterLastEffect ==
    [][\A k \in Ids : Handled(k) =>
            /\ reg[k] = "poll" => thrd[k] \in Over
            /\ reg[k] \in BgModes => popen[k] = "reaped"
            /\ thrd'[k] = thrd[k]
            /\ popen'[k] = popen[k]
            /\ k \in Logged => log' = log]_vars

(* C16 witness: stop returned after two pollers, the followed one with     *)
(* records in its log                                                      *)
HappensAfterLastEffectWitness ==
    /\ pc = "done"
    /\ reg[1] = "poll"
    /\ Len(log) >= 2
    /\ \E k \in Ids : k > 1 /\ reg[k] = "poll"

(* C17: a stop flag is false from its creation on, goes to true only by    *)
(* the store of the shutdown pass for its id and never back; while the     *)
(* agent is Running no flag is set and no key leaves either map            *)
StopSignalDiscipline ==
    [][/\ pc \in RunningPcs =>
            /\ \A k \in Ids : ~stopflag[k]
            /\ polls \subseteq polls'
            /\ DOMAIN procs \subseteq DOMAIN procs'
       /\ \A k \in Ids :
            /\ stopflag[k] => stopflag'[k]
            /\ (stopflag'[k] /\ ~stopflag[k]) =>
                    pc = "stop_flag" /\ i = k /\ pc' = "stop_join"]_vars

(* C17 witness: the pass has stored the flag of one poller while another   *)
(* poller is still tracked with its flag unset                             *)
StopSignalDisciplineWitness ==
    /\ pc = "stop_join"
    /\ stopflag[i]
    /\ \E k \in polls : ~stopflag[k]

(* the followed log is a header and then records, all but a last one that  *)
(* a failed write_all cut short being complete                             *)
LogOk ==
    /\ thrd[1] \in {"none", "create"} => log = << >>
    /\ thrd[1] \in {"check", "read", "write", "flush", "exited"} =>
            /\ log # << >>
            /\ dead[1] = "-"
    /\ log # << >> => log[1] = create_header(srcs, DEFAULT_SLEEP_TIME)
    /\ \A n \in 2..Len(log) :
            \/ log[n] = build_record(srcs)
            \/ /\ n = Len(log)
               /\ log[n] = short_write(srcs)
               /\ thrd[1] = "panicked"
               /\ dead[1] = "io"

(* C18: the log of a poller is one header followed by records; a thread    *)
(* samples only after a look at its stop flag that found it unset, writes  *)
(* only what it has just sampled, and each write adds one whole record, so *)
(* that no stop leaves a partial record (only a failed write can)          *)
PollerLogShape ==
    [][/\ LogOk
       /\ LogOk'
       /\ \A k \in Ids :
            /\ (thrd'[k] = "read" /\ thrd[k] # "read") =>
                    thrd[k] = "check" /\ ~stopflag[k]
            /\ (thrd'[k] = "write" /\ thrd[k] # "write") => thrd[k] = "read"
            /\ (thrd[k] = "check" /\ stopflag[k] /\ thrd'[k] # thrd[k]) =>
                    thrd'[k] = "flush" /\ (k \in Logged => log' = log)
       /\ log' # log =>
            \/ thrd[1] = "create" /\ log = << >> /\ Len(log') = 1
            \/ /\ thrd[1] = "write"
               /\ \E e \in {build_record(srcs), short_write(srcs)} :
                        log' = Append(log, e)
               /\ thrd'[1] = "panicked" <=> log'[Len(log')] # build_record(srcs)]_vars

(* C18 witness: the thread was stopped and has left, and its log is the    *)
(* header and two complete records                                         *)
PollerLogShapeWitness ==
    /\ thrd[1] = "exited"
    /\ stopflag[1]
    /\ Len(log) = 3
    /\ log[2] = build_record(srcs)
    /\ log[3] = build_record(srcs)

(* the pass has stored the stop flag of k and waits in join *)
Joining(k) == pc = "stop_join" /\ i = k /\ stopflag[k]

(* the thread of k has flushed and ended and the join of k returned Ok *)
Joined(k) == pc = "stop_next" /\ i = k /\ thrd[k] = "exited"

Variant(r) ==
    CASE r.type = "Poll" -> "Poll"
      [] r.type = "Spawn" /\ r.arg = "Foreground" -> "SpawnFg"
      [] r.type = "Spawn" /\ r.arg \in BgModes -> "SpawnBg"
      [] OTHER -> "-"

(* C20: every Poll or Spawn request is answered by one response, sent      *)
(* before the next receive; the response is of the variant of the request, *)
(* and the id of an Ok Poll or SpawnBg response is the key, new with this  *)
(* request, under which the handle sits in the map of its kind when the    *)
(* response is sent                                                        *)
OneMatchingResponse ==
    [][/\ pc = "send" =>
            /\ req.type \in {"Poll", "Spawn"}
            /\ resp.type = Variant(req)
            /\ (resp.ok /\ resp.type = "Poll") =>
                    /\ resp.id \in polls \ pre.polls
                    /\ resp.id \notin DOMAIN procs
            /\ (resp.ok /\ resp.type = "SpawnBg") =>
                    /\ resp.id \in DOMAIN procs \ pre.procs
                    /\ resp.id \notin polls
            /\ pc' # pc => pc' = "recv"
       /\ hist' # hist =>
            /\ pc = "send"
            /\ hist' = Append(hist, [type |-> resp.type, ok |-> resp.ok, id |-> id])
       /\ (pc = "recv" /\ pc' \in RunningPcs \ {"recv"}) =>
            /\ req'.type \in {"Poll", "Spawn"}
            /\ hist' = hist
       /\ (pc \in RunningPcs \ {"recv"} /\ pc' = "recv") =>
            /\ pc = "send"
            /\ req' = req
            /\ Len(hist') = Len(hist) + 1]_vars

(* C20 witness: the SpawnBg response to the second request is about to be  *)
(* sent with the id under which the process was just registered            *)
OneMatchingResponseWitness ==
    /\ pc = "send"
    /\ Len(hist) = 1
    /\ req.arg \in BgModes
    /\ resp = [type |-> "SpawnBg", ok |-> TRUE, id |-> id]
    /\ id \in DOMAIN procs

(* C21: a foreground Spawn advances the counter by one and leaves both     *)
(* maps as they were, whatever its outcome; the pass finds its id in       *)
(* neither map and goes on to the next id, and the command is never sent   *)
(* a signal                                                                *)
ForegroundNoHandle ==
    [][/\ (pc = "recv" /\ pc' # "recv" /\ req'.arg = "Foreground") =>
            /\ count' = count + 1
            /\ id' = count'
            /\ polls' = polls
            /\ procs' = procs
       /\ (pc = "fg" /\ pc' # "fg") =>
            /\ count' = count
            /\ polls' = polls
            /\ procs' = procs
       /\ (pc = "send" /\ req.arg = "Foreground") =>
            /\ count = pre.count + 1
            /\ polls = pre.polls
            /\ DOMAIN procs = pre.procs
       /\ \A k \in Ids : IsFg(k) =>
            /\ k \notin polls
            /\ k \notin DOMAIN procs
            /\ ~sig[k] /\ ~sig'[k]
            /\ (pc = "stop_rmpoll" /\ i = k /\ pc' # pc) =>
                    /\ pc' = "stop_next"
                    /\ found' = <<None, FALSE>>
                    /\ popen' = popen]_vars

(* C21 witness: the pass has just gone past the id of a foreground command *)
(* that ran to its end, with a poller or a process of a lower id to come   *)
ForegroundNoHandleWitness ==
    /\ pc = "stop_next"
    /\ i \in Ids
    /\ IsFg(i)
    /\ popen[i] = "reaped"
    /\ found = <<None, FALSE>>
    /\ iter # << >>
    /\ \E k \in Ids : k < i /\ reg[k] # "none"

(* C22: the counter never decreases, the keys of both maps lie in          *)
(* 1..count, an insert never finds its key in the map, the pass never      *)
(* finds an id in both maps, and both maps are empty when the pass has     *)
(* gone through its range: none of the bookkeeping assertions can fire     *)
MapBookkeeping ==
    [][/\ count' >= count
       /\ polls \cup DOMAIN procs \subseteq 1..count
       /\ polls' \cup DOMAIN procs' \subseteq 1..count'
       /\ pc = "poll_ins" =>
            /\ id \notin polls
            /\ pc' # pc => pc' = "send"
       /\ pc = "bg_ins" =>
            /\ id \notin DOMAIN procs
            /\ pc' # pc => pc' = "send"
       /\ pc = "stop_rmpoll" => ~(found[1].some /\ i \in polls)
       /\ (pc = "stop_next" /\ iter = << >>) =>
            /\ polls = {}
            /\ DOMAIN procs = {}
            /\ pc' # pc => pc' = "done"]_vars

(* C22 witness: stop returned, having emptied maps that held a poller and  *)
(* a background process                                                    *)
MapBookkeepingWitness ==
    /\ pc = "done"
    /\ polls = {}
    /\ DOMAIN procs = {}
    /\ \E k \in Ids : reg[k] = "poll"
    /\ \E k \in Ids : reg[k] \in BgModes

(* a thread of a poller panicked on its reads or on its log *)
IoFailed == \E k \in Ids : dead[k] # "-"

(* terminate() or wait() on a process failed, which panics the agent *)
ProcCallFailed == pc = "panic" /\ found[1].some

(* no thread and no process of the agent is left *)
Reclaimed ==
    \A k \in Ids :
        /\ thrd[k] \in {"none", "exited"}
        /\ popen[k] \in {"none", "reaped"}

(* a graceful pass blocked in wait() on a BackgroundWait process that runs *)
WaitingOnBgWait ==
    /\ pc = "stop_wait"
    /\ ~abnormal
    /\ found[1].wait4
    /\ popen[i] = "running"

Deliverable(q) == SelectSeq(q, LAMBDA e : e.type \notin {"Sleep", "Pause"})

(* the request r is what recv_request makes of the entry e *)
Matches(r, e) ==
    CASE e.type = "Poll" -> r.type = "Poll"
      [] e.type = "Spawn" ->
            r.type = "Spawn" /\ r.arg = local_mode_to_agent(e.mode)
      [] e.type = "Abort" -> r = [type |-> "Abort", arg |-> "-"]
      [] OTHER -> FALSE

(* the last response handed to send_response was an Err *)
ErrorAnswered == hist # << >> /\ ~hist[Len(hist)].ok

(* recv_request is about to pop a Sleep or a Pause *)
LocalEntryNext ==
    /\ pc = "recv"
    /\ requests # << >>
    /\ Top(requests).type \in {"Sleep", "Pause"}

(* C24: on the local transport the n-th request delivered is the n-th      *)
(* entry of the script that is not a Sleep or a Pause, those being popped  *)
(* without anything reaching the agent; receive never yields None; with    *)
(* the script exhausted it yields Finish; and after an Err response the    *)
(* next request delivered is Abort, whatever the script still holds, so    *)
(* that nothing more is handled and the shutdown is abnormal               *)
LocalReplay ==
    [][/\ req.type # "None"
       /\ req'.type # "None"
       /\ script' = script
       /\ (pc = "recv" /\ pc' # "recv" /\ ~LocalEntryNext) =>
            IF ErrorAnswered
            THEN /\ req'.type = "Abort"
                 /\ abnormal'
                 /\ pc' = "stop_next"
            ELSE IF Len(hist) < Len(Deliverable(script))
            THEN Matches(req', Deliverable(script)[Len(hist) + 1])
            ELSE /\ req'.type = "Finish"
                 /\ ~abnormal'
                 /\ pc' = "stop_next"
       /\ LocalEntryNext =>
            /\ req' = req
            /\ hist' = hist
            /\ count' = count
            /\ pc' \in {"recv", "panic"}
       /\ ErrorAnswered =>
            /\ hist' = hist
            /\ pc # "recv" => req.type = "Abort" /\ abnormal]_vars

(* C24 witness: an Err response was followed by Abort although the script  *)
(* went on with a Sleep and another request, which is left unpopped        *)
LocalReplayWitness ==
    /\ pc \in StopPcs
    /\ abnormal
    /\ req.type = "Abort"
    /\ ErrorAnswered
    /\ Len(script) = 3
    /\ script[2].type = "Sleep"
    /\ script[3].type \in {"Poll", "Spawn"}
    /\ Len(requests) = 2

====
